---- MODULE Spec2Model ----
(***************************************************************************)
(* A model of app.py (Instagram Reel -> transcript): URL cleaning and      *)
(* validation, cookie-source resolution, the lazily built Whisper model,   *)
(* SRT timestamp formatting and writing, and the three request handlers    *)
(* (CLI loop, POST /submit, POST /transcribe).                             *)
(*                                                                         *)
(* Text is modelled as a sequence of lexemes: every delimiter that the     *)
(* code splits on (":", "/", "?", "#") is a lexeme of its own, and every   *)
(* other lexeme is a run of characters that holds none of them.            *)
(***************************************************************************)
EXTENDS Integers, Sequences, FiniteSets, TLC

VARIABLES
    \* ---- URL cleaning applied once and twice
    u_in, u_once, u_twice,
    \* ---- process configuration (module level, lines 25-35) and file system
    COOKIES_FILE, _COOKIES_TEXT_FILE, LOCAL_COOKIES_BROWSER, fs,
    \* ---- one request / CLI invocation
    handler, urls, cookies_path, req_model, i, pc, trace, out_results, response,
    stdout, tmpdirs, ydl_calls, written,
    \* ---- the shared Whisper model and the threads calling get_model
    _MODEL, built, tpc, targs, tlocal, tret,
    \* ---- timestamp formatting
    t, rendered,
    \* ---- subtitle writing of two segment lists
    segsA, segsB, fileA, fileB

uvars == <<u_in, u_once, u_twice>>
cvars == <<COOKIES_FILE, _COOKIES_TEXT_FILE, LOCAL_COOKIES_BROWSER, fs>>
hvars == <<handler, urls, cookies_path, req_model, i, pc, trace, out_results,
           response, stdout, tmpdirs, ydl_calls, written>>
mvars == <<_MODEL, built, tpc, targs, tlocal, tret>>
fvars == <<t, rendered>>
svars == <<segsA, segsB, fileA, fileB>>
vars == <<uvars, cvars, hvars, mvars, fvars, svars>>

\* ------------------------------------------------------------------ bounds
\* Longest path (in segments) of an input URL.
MaxSegs == 3
\* Longest URL list of one request.
MaxUrls == 3
\* Number of request threads that call get_model.
MaxThreads == 2
\* Number of whole seconds / fraction values drawn for fmt.
MaxWhole == 5
\* Longest segment list handed to write_srt.
MaxSegments == 2

\* ----------------------------------------------------------------- helpers
\* First index of s holding a member of S, 0 when there is none (str.find).
Find(s, S) ==
    IF \E k \in 1..Len(s) : s[k] \in S
    THEN CHOOSE k \in 1..Len(s) : s[k] \in S /\ \A j \in 1..(k - 1) : s[j] \notin S
    ELSE 0

\* s[a..] of Python, 1-based.
From(s, a) == SubSeq(s, a, Len(s))

\* str.lower on a lexeme: only the lexemes with upper-case letters change.
LowerTok(x) ==
    CASE x = "HTTPS" -> "https"
      [] x = "WWW.Instagram.COM" -> "www.instagram.com"
      [] OTHER -> x

lower(s) == [k \in 1..Len(s) |-> LowerTok(s[k])]

\* What re.IGNORECASE compares a lexeme as. On a str pattern Python folds by
\* Unicode simple case folding, under which U+0131 (dotless i) matches "i":
\* the lexeme "U+0131nstagram.com" stands for that host spelled with U+0131,
\* which str.lower leaves alone and the pattern accepts.
FoldTok(x) ==
    CASE x = "U+0131nstagram.com" -> "instagram.com"
      [] OTHER -> LowerTok(x)

\* Lexemes made only of scheme characters (letters, digits, "+", "-", ".").
SchemeTok ==
    {"http", "https", "HTTPS", "ftp", "instagram.com", "www.instagram.com",
     "WWW.Instagram.COM", "example.com", "reel", "reels", "p", "ABC", "a.b"}

\* Lexemes made only of [A-Za-z0-9_\-] (the identifier class of INSTAGRAM_RE).
IdTok == {"http", "https", "HTTPS", "ftp", "reel", "reels", "p", "ABC"}

\* The one member of a singleton set. { e(x) : x \in {v} } names a value v
\* once and uses it many times in e.
The(S) == CHOOSE v \in S : TRUE

\* str.partition on the first lexeme of S: what precedes it, whether it was
\* found, and what follows it.
partition(s, S) ==
    The({ IF k = 0
          THEN [head |-> s, found |-> FALSE, tail |-> <<>>]
          ELSE [head |-> SubSeq(s, 1, k - 1), found |-> TRUE, tail |-> From(s, k + 1)]
          : k \in {Find(s, S)} })

\* ------------------------------------------------- urllib.parse (line 7)
\* urlsplit, the scheme: the text before the first ":" when that text is not
\* empty and made of scheme characters; <<scheme, rest>>.
SplitScheme(url) ==
    The({ IF /\ c.found
             /\ c.head # <<>>
             /\ \A k \in 1..Len(c.head) : c.head[k] \in SchemeTok
          THEN <<lower(c.head), c.tail>>
          ELSE <<<<>>, url>>
          : c \in {partition(url, {":"})} })

\* urlsplit, the network location: after a leading "//", up to the first of
\* "/", "?", "#"; <<netloc, rest>>.
SplitNetloc(url) ==
    IF Len(url) >= 2 /\ url[1] = "/" /\ url[2] = "/"
    THEN The({ The({ IF d = 0 THEN <<a, <<>>>>
                     ELSE <<SubSeq(a, 1, d - 1), From(a, d)>>
                     : d \in {Find(a, {"/", "?", "#"})} })
               : a \in {From(url, 3)} })
    ELSE <<<<>>, url>>

urlsplit(url) ==
    The({ The({ The({ The({
        [scheme |-> s[1], netloc |-> n[1], path |-> q.head,
         query |-> q.tail, fragment |-> f.tail]
        : q \in {partition(f.head, {"?"})} })
        : f \in {partition(n[2], {"#"})} })
        : n \in {SplitNetloc(s[2])} })
        : s \in {SplitScheme(url)} })

\* urlunsplit((scheme, netloc, path, query, fragment)).
urlunsplit(scheme, netloc, path, query, fragment) ==
    (IF scheme # <<>> THEN scheme \o <<":">> ELSE <<>>)
    \o (IF netloc # <<>>
        THEN <<"/", "/">> \o netloc
             \o (IF path # <<>> /\ path[1] # "/" THEN <<"/">> ELSE <<>>)
        ELSE <<>>)
    \o path
    \o (IF query # <<>> THEN <<"?">> \o query ELSE <<>>)
    \o (IF fragment # <<>> THEN <<"#">> \o fragment ELSE <<>>)

\* path.split("/"): the pieces between the "/" lexemes, empty ones included.
RECURSIVE split(_)
split(s) ==
    The({ IF c.found THEN <<c.head>> \o split(c.tail) ELSE <<s>>
          : c \in {partition(s, {"/"})} })

\* list.index(x), 1-based; 0 when x is absent.
index(parts, x) == Find(parts, {x})

\* ------------------------------------------- URL cleaning & validation
\* Mutant of INSTAGRAM_RE: the host is not looked at.
INSTAGRAM_RE_anyhost(url) ==
    \E u \in {url} :
       /\ Len(u) >= 9
       /\ FoldTok(u[1]) \in {"http", "https"}
       /\ u[2] = ":" /\ u[3] = "/" /\ u[4] = "/"
       /\ u[6] = "/"
       /\ FoldTok(u[7]) \in {"reel", "reels"}
       /\ u[8] = "/"
       /\ \E e \in 9..Len(u) :
            /\ \A k \in 9..e : u[k] \in IdTok
            /\ e = Len(u) \/ (e = Len(u) - 1 /\ u[Len(u)] = "/")

\* INSTAGRAM_RE.match(url): ^https?://(www\.)?instagram\.com/reels?/[A-Za-z0-9_\-]+/?$
\* with re.IGNORECASE.
INSTAGRAM_RE(url) ==
    \E u \in {url} :
       /\ Len(u) >= 9
       /\ FoldTok(u[1]) \in {"http", "https"}
       /\ u[2] = ":" /\ u[3] = "/" /\ u[4] = "/"
       /\ FoldTok(u[5]) \in {"instagram.com", "www.instagram.com"}
       /\ u[6] = "/"
       /\ FoldTok(u[7]) \in {"reel", "reels"}
       /\ u[8] = "/"
       /\ \E e \in 9..Len(u) :
            /\ \A k \in 9..e : u[k] \in IdTok
            /\ e = Len(u) \/ (e = Len(u) - 1 /\ u[Len(u)] = "/")

Ok(v) == [ok |-> TRUE, val |-> v, err |-> ""]
Raise(e) == [ok |-> FALSE, val |-> <<>>, err |-> e]

\* The segment list computed on line 45.
PathParts(parsed) == SelectSeq(split(parsed.path), LAMBDA p : p # <<>>)

\* The index chosen on lines 47-52: "reel" first, else "reels", else 0 (raise).
ReelIndex(parts) ==
    IF index(parts, <<"reel">>) # 0 THEN index(parts, <<"reel">>)
    ELSE index(parts, <<"reels">>)

_clean_instagram_reel_url(url) ==
    The({ The({ The({
        IF k = 0 \/ k + 1 > Len(parts)
        THEN Raise("URL does not contain a valid Instagram reel id.")
        ELSE Ok(urlunsplit(
                 IF parsed.scheme # <<>> THEN parsed.scheme ELSE <<"https">>,
                 IF parsed.netloc # <<>> THEN parsed.netloc
                                         ELSE <<"www.instagram.com">>,
                 <<"/", "reel", "/">> \o parts[k + 1], <<>>, <<>>))
        : k \in {ReelIndex(parts)} })
        : parts \in {PathParts(parsed)} })
        : parsed \in {urlsplit(url)} })

\* Lines 83-85 of download_audio: clean, then validate the cleaned URL.
normalize(url) ==
    The({ IF ~c.ok THEN c
          ELSE IF ~INSTAGRAM_RE(c.val)
               THEN Raise("This does not look like a valid Instagram Reel URL.")
               ELSE c
          : c \in {_clean_instagram_reel_url(url)} })

\* ------------------------------------------------------------ input URLs
SchemeParts ==
    {<<>>, <<"https", ":", "/", "/">>, <<"http", ":", "/", "/">>,
     <<"HTTPS", ":", "/", "/">>, <<"ftp", ":", "/", "/">>}

HostParts ==
    {<<>>, <<"instagram.com">>, <<"www.instagram.com">>,
     <<"WWW.Instagram.COM">>, <<"U+0131nstagram.com">>, <<"example.com">>}

SegTok == {"reel", "reels", "p", "ABC", "a.b"}

TailParts ==
    {<<>>, <<"/">>, <<"?", "x=1">>, <<"#", "frag">>,
     <<"/", "?", "x=1", "#", "frag">>}

RECURSIVE PathOf(_)
PathOf(segs) ==
    IF segs = <<>> THEN <<>> ELSE <<"/", Head(segs)>> \o PathOf(Tail(segs))

SegLists == UNION {[1..n -> SegTok] : n \in 0..MaxSegs}

Urls ==
    {s \o h \o PathOf(p) \o e :
        s \in SchemeParts, h \in HostParts, p \in SegLists, e \in TailParts}

\* ------------------------------------------------- cookie sources (25-35)
\* A path is a string; None and the empty string, both falsy, are "".
ExplicitPath == "cookies.txt"
SecretPath == "/etc/secrets/cookies.txt"
TextPath == "cookies_env_/cookies.txt"
Browsers == {"chrome", "edge", "firefox"}

\* os.path.exists
exists(path) == path \in fs

\* Mutant of _resolve_cookiefile: the process-wide secret file is tried
\* before the path given with the request.
_resolve_cookiefile_envfirst(explicit_path) ==
    IF COOKIES_FILE # "" /\ exists(COOKIES_FILE) THEN COOKIES_FILE
    ELSE IF explicit_path # "" /\ exists(explicit_path) THEN explicit_path
    ELSE IF _COOKIES_TEXT_FILE # "" /\ exists(_COOKIES_TEXT_FILE)
         THEN _COOKIES_TEXT_FILE
    ELSE ""

_resolve_cookiefile(explicit_path) ==
    IF explicit_path # "" /\ exists(explicit_path) THEN explicit_path
    ELSE IF COOKIES_FILE # "" /\ exists(COOKIES_FILE) THEN COOKIES_FILE
    ELSE IF _COOKIES_TEXT_FILE # "" /\ exists(_COOKIES_TEXT_FILE)
         THEN _COOKIES_TEXT_FILE
    ELSE ""

\* The cookie keys of ydl_opts set on lines 105-111 ("" = key absent).
ydl_opts(path) ==
    LET cookiefile == _resolve_cookiefile(path)
    IN [cookiefile |-> cookiefile,
        cookiesfrombrowser |->
            IF cookiefile # "" THEN ""
            ELSE IF LOCAL_COOKIES_BROWSER \in Browsers
                 THEN LOCAL_COOKIES_BROWSER
                 ELSE ""]

\* ------------------------------------------------ Whisper model (60-65)
None == [model_size |-> "", compute_type |-> "", id |-> 0]

\* WhisperModel(model_size, device="cpu", compute_type=compute_type): the
\* n-th instance built in this process.
WhisperModel(model_size, compute_type, n) ==
    [model_size |-> model_size, compute_type |-> compute_type, id |-> n]

\* --------------------------------------------------------- the handlers
Handlers == {"cli", "api", "submit"}

NoResponse == [status |-> 0, url |-> <<>>, cause |-> "", results |-> <<>>]

Event(stage, ok) == [k |-> i, stage |-> stage, ok |-> ok]

\* Mutant of Except: /transcribe records nothing and goes on to the next URL,
\* as the CLI does.
Except_continue(e) ==
    CASE handler \in {"cli", "api"} ->
            /\ stdout' = Append(stdout, [tag |-> "[ERROR]", k |-> i, url |-> urls[i], msg |-> e])
            /\ i' = i + 1
            /\ pc' = "loop"
            /\ UNCHANGED <<response, out_results>>
      [] handler = "submit" ->
            /\ response' = [status |-> 400, url |-> <<>>, cause |-> e,
                            results |-> <<>>]
            /\ pc' = "done"
            /\ UNCHANGED <<stdout, i, out_results>>

\* Mutant of Except: the CLI prints the error and leaves the loop.
Except_abort(e) ==
    CASE handler = "cli" ->
            /\ stdout' = Append(stdout, [tag |-> "[ERROR]", k |-> i, url |-> urls[i], msg |-> e])
            /\ pc' = "done"
            /\ UNCHANGED <<i, response, out_results>>
      [] handler = "api" ->
            /\ response' = [status |-> 400, url |-> urls[i], cause |-> e,
                            results |-> <<>>]
            /\ pc' = "done"
            /\ UNCHANGED <<stdout, i, out_results>>
      [] handler = "submit" ->
            /\ response' = [status |-> 400, url |-> <<>>, cause |-> e,
                            results |-> <<>>]
            /\ pc' = "done"
            /\ UNCHANGED <<stdout, i, out_results>>

\* The except clause of the running handler (lines 223-224, 243-244, 280-281)
\* for the exception e raised while raw_url = urls[i] is processed.
Except(e) ==
    CASE handler = "cli" ->
            /\ stdout' = Append(stdout, [tag |-> "[ERROR]", k |-> i, url |-> urls[i], msg |-> e])
            /\ i' = i + 1
            /\ pc' = "loop"
            /\ UNCHANGED <<response, out_results>>
      [] handler = "api" ->
            /\ response' = [status |-> 400, url |-> urls[i], cause |-> e,
                            results |-> <<>>]
            /\ pc' = "done"
            /\ UNCHANGED <<stdout, i, out_results>>
      [] handler = "submit" ->
            /\ response' = [status |-> 400, url |-> <<>>, cause |-> e,
                            results |-> <<>>]
            /\ pc' = "done"
            /\ UNCHANGED <<stdout, i, out_results>>

\* print(...) of the CLI; the HTTP handlers print nothing. A line records
\* the iteration k that printed it.
printed(lines) == IF handler = "cli" THEN stdout \o lines ELSE stdout

\* `for raw_url in ...:` (lines 229, 267) and what follows the loop.
LoopHead ==
    /\ pc = "loop"
    /\ IF i <= Len(urls)
       THEN /\ pc' = "normalize"
            /\ stdout' = printed(<<[tag |-> "Downloading", k |-> i, url |-> urls[i], msg |-> ""]>>)
            /\ UNCHANGED response
       ELSE /\ pc' = "done"
            /\ response' = IF handler = "api"
                           THEN [status |-> 200, url |-> <<>>, cause |-> "",
                                 results |-> out_results]
                           ELSE response
            /\ UNCHANGED stdout
    /\ UNCHANGED <<handler, urls, cookies_path, req_model, i, trace, out_results,
                   tmpdirs, ydl_calls, written>>
    /\ UNCHANGED <<uvars, cvars, mvars, fvars, svars>>

\* Mutant of Normalize: the result of the validation is ignored and the
\* download goes ahead.
Normalize_lenient ==
    /\ pc = "normalize"
    /\ \E r \in {normalize(urls[i])} :
          /\ trace' = Append(trace, Event("normalize", r.ok))
          /\ pc' = "fetch"
          /\ UNCHANGED <<i, stdout, response, out_results>>
    /\ UNCHANGED <<handler, urls, cookies_path, req_model, tmpdirs, ydl_calls, written>>
    /\ UNCHANGED <<uvars, cvars, mvars, fvars, svars>>

\* download_audio, lines 83-85.
Normalize ==
    /\ pc = "normalize"
    /\ \E r \in {normalize(urls[i])} :
          /\ trace' = Append(trace, Event("normalize", r.ok))
          /\ IF r.ok
             THEN pc' = "fetch" /\ UNCHANGED <<i, stdout, response, out_results>>
             ELSE Except(r.err)
    /\ UNCHANGED <<handler, urls, cookies_path, req_model, tmpdirs, ydl_calls, written>>
    /\ UNCHANGED <<uvars, cvars, mvars, fvars, svars>>

\* download_audio, lines 87-116: the temporary directory, the cookie options
\* and the downloader, which returns a file name or raises.
Fetch ==
    /\ pc = "fetch"
    /\ tmpdirs' = tmpdirs + 1
    /\ ydl_calls' = Append(ydl_calls,
                           [k |-> i, url |-> normalize(urls[i]).val,
                            opts |-> ydl_opts(cookies_path)])
    /\ \E ok \in BOOLEAN :
          /\ trace' = Append(trace, Event("fetch", ok))
          /\ IF ok
             THEN /\ pc' = "transcribe"
                  /\ stdout' = printed(<<[tag |-> "Saved media", k |-> i, url |-> urls[i], msg |-> ""],
                                        [tag |-> "Transcribing", k |-> i, url |-> urls[i], msg |-> ""]>>)
                  /\ UNCHANGED <<i, response, out_results>>
             ELSE Except("FetchFailure")
    /\ UNCHANGED <<handler, urls, cookies_path, req_model, written>>
    /\ UNCHANGED <<uvars, cvars, mvars, fvars, svars>>

\* transcribe, lines 118-138: get_model (which builds the model when _MODEL is
\* None, and may raise doing so) and then model.transcribe, which may raise.
Transcribe ==
    /\ pc = "transcribe"
    /\ \E out \in {"ok", "model", "audio"} :
          /\ out = "model" => _MODEL = None
          /\ IF _MODEL = None /\ out # "model"
             THEN /\ _MODEL' = WhisperModel(req_model[1], req_model[2], Len(built) + 1)
                  /\ built' = Append(built, _MODEL')
             ELSE UNCHANGED <<_MODEL, built>>
          /\ trace' = Append(trace, Event("transcribe", out = "ok"))
          /\ IF out = "ok"
             THEN pc' = "write_srt" /\ UNCHANGED <<i, stdout, response, out_results>>
             ELSE Except("TranscriptionFailure")
    /\ UNCHANGED <<handler, urls, cookies_path, req_model, tmpdirs, ydl_calls, written>>
    /\ UNCHANGED <<tpc, targs, tlocal, tret>>
    /\ UNCHANGED <<uvars, cvars, fvars, svars>>

\* write_srt as the handlers call it (lines 216-217, 233-234, 274-275); open()
\* may raise.
WriteSrt ==
    /\ pc = "write_srt"
    /\ \E ok \in BOOLEAN :
          /\ trace' = Append(trace, Event("write_srt", ok))
          /\ IF ok
             THEN /\ written' = Append(written, i)
                  /\ pc' = "assemble"
                  /\ UNCHANGED <<i, stdout, response, out_results>>
             ELSE Except("IOFailure") /\ UNCHANGED written
    /\ UNCHANGED <<handler, urls, cookies_path, req_model, tmpdirs, ydl_calls>>
    /\ UNCHANGED <<uvars, cvars, mvars, fvars, svars>>

\* What a handler does with the result of one URL: lines 276-279 (CLI prints),
\* 235-242 (the API appends a TranscribeResult), 218-222 (the form page).
Assemble ==
    /\ pc = "assemble"
    /\ \E r \in {_clean_instagram_reel_url(urls[i])} :
          IF handler # "cli" /\ ~r.ok
          THEN /\ trace' = Append(trace, Event("assemble", FALSE))
               /\ Except(r.err)
          ELSE /\ trace' = Append(trace, Event("assemble", TRUE))
               /\ CASE handler = "cli" ->
                        /\ stdout' = printed(<<[tag |-> "TRANSCRIPT", k |-> i, url |-> urls[i], msg |-> ""],
                                              [tag |-> "SRT saved", k |-> i, url |-> urls[i], msg |-> ""]>>)
                        /\ i' = i + 1
                        /\ pc' = "loop"
                        /\ UNCHANGED <<response, out_results>>
                    [] handler = "api" ->
                        /\ out_results' = Append(out_results, [k |-> i, url |-> r.val, srt_path |-> i])
                        /\ i' = i + 1
                        /\ pc' = "loop"
                        /\ UNCHANGED <<response, stdout>>
                    [] handler = "submit" ->
                        /\ response' = [status |-> 200, url |-> r.val, cause |-> "",
                                        results |-> <<>>]
                        /\ pc' = "done"
                        /\ UNCHANGED <<i, stdout, out_results>>
    /\ UNCHANGED <<handler, urls, cookies_path, req_model, tmpdirs, ydl_calls, written>>
    /\ UNCHANGED <<uvars, cvars, mvars, fvars, svars>>

HandlerNext == LoopHead \/ Normalize \/ Fetch \/ Transcribe \/ WriteSrt \/ Assemble

\* get_model (lines 61-65) as one request thread runs it, statement by
\* statement; FastAPI runs the `def` endpoints on a thread pool, and building
\* the model takes long enough for the other threads to run meanwhile.
Threads == 1..MaxThreads

\* line 63: if _MODEL is None
GetModelCheck(th) ==
    /\ tpc[th] = "check"
    /\ tpc' = [tpc EXCEPT ![th] = IF _MODEL = None THEN "construct" ELSE "return"]
    /\ UNCHANGED <<_MODEL, built, targs, tlocal, tret>>

\* line 64, right-hand side: WhisperModel(...) is built, or raises.
GetModelConstruct(th) ==
    /\ tpc[th] = "construct"
    /\ \E ok \in BOOLEAN :
          IF ok
          THEN /\ tlocal' = [tlocal EXCEPT ![th] =
                                WhisperModel(targs[th][1], targs[th][2], Len(built) + 1)]
               /\ built' = Append(built, tlocal'[th])
               /\ tpc' = [tpc EXCEPT ![th] = "store"]
          ELSE /\ tpc' = [tpc EXCEPT ![th] = "raised"]
               /\ UNCHANGED <<tlocal, built>>
    /\ UNCHANGED <<_MODEL, targs, tret>>

\* line 64, the assignment to the global.
GetModelStore(th) ==
    /\ tpc[th] = "store"
    /\ _MODEL' = tlocal[th]
    /\ tpc' = [tpc EXCEPT ![th] = "return"]
    /\ UNCHANGED <<built, targs, tlocal, tret>>

\* line 65: return _MODEL
GetModelReturn(th) ==
    /\ tpc[th] = "return"
    /\ tret' = [tret EXCEPT ![th] = _MODEL]
    /\ tpc' = [tpc EXCEPT ![th] = "done"]
    /\ UNCHANGED <<_MODEL, built, targs, tlocal>>

get_model ==
    /\ \E th \in Threads :
          \/ GetModelCheck(th)
          \/ GetModelConstruct(th)
          \/ GetModelStore(th)
          \/ GetModelReturn(th)
    /\ UNCHANGED <<uvars, cvars, hvars, fvars, svars>>

\* ------------------------------------------------- write_srt (140-148)
\* Times are whole numbers of ticks, ten to the millisecond.
Ticks == 10 * 1000

\* round(): to the nearest multiple of d, a tie to the even one.
round(n, d) ==
    LET q == n \div d
        r == n % d
    IN IF 2 * r < d THEN q
       ELSE IF 2 * r > d THEN q + 1
       ELSE IF q % 2 = 0 THEN q ELSE q + 1

RECURSIVE Digits(_)
Digits(n) ==
    IF n < 10 THEN <<ToString(n)>> ELSE Digits(n \div 10) \o <<ToString(n % 10)>>

\* The format specs :02d and :03d: at least w digits, zero-padded.
Pad(n, w) ==
    LET d == Digits(n)
    IN IF Len(d) >= w THEN d ELSE [k \in 1..(w - Len(d)) |-> "0"] \o d

\* fmt of write_srt (lines 141-144), as the characters it returns.
fmt(x) ==
    LET h == x \div (3600 * Ticks)
        m == (x % (3600 * Ticks)) \div (60 * Ticks)
        s == (x % (60 * Ticks)) \div Ticks
        ms == round(x - (x \div Ticks) * Ticks, 10)
    IN Pad(h, 2) \o <<":">> \o Pad(m, 2) \o <<":">> \o Pad(s, 2) \o <<",">> \o Pad(ms, 3)

RECURSIVE Join(_)
Join(cs) == IF cs = <<>> THEN "" ELSE Head(cs) \o Join(Tail(cs))

\* The text one iteration of line 147 writes, as lines: a text is the
\* sequence of its lines (what "\n" separates), <<"">> for the empty text.
Block(n, seg) ==
    <<ToString(n), Join(fmt(seg.start)) \o " --> " \o Join(fmt(seg.end))>>
        \o seg.text \o <<"">>

RECURSIVE write_srt(_, _)
\* The lines of the file written for segments, numbered from n (the code calls
\* enumerate(segments, start=1)).
write_srt(segments, n) ==
    IF segments = <<>> THEN <<>>
    ELSE Block(n, Head(segments)) \o write_srt(Tail(segments), n + 1)

\* str.strip() on a text given as lines: the blank lines at both ends go.
RECURSIVE lstrip(_)
lstrip(lines) ==
    IF Len(lines) > 1 /\ Head(lines) = "" THEN lstrip(Tail(lines)) ELSE lines

RECURSIVE rstrip(_)
rstrip(lines) ==
    IF Len(lines) > 1 /\ lines[Len(lines)] = ""
    THEN rstrip(SubSeq(lines, 1, Len(lines) - 1))
    ELSE lines

strip(lines) == rstrip(lstrip(lines))

\* The segment dictionaries built on lines 123-130 from the model's segments.
result_segments(raw) ==
    [k \in 1..Len(raw) |->
        [id |-> raw[k].id,
         start |-> round(raw[k].start, 100) * 100,
         end |-> round(raw[k].end, 100) * 100,
         text |-> strip(raw[k].text)]]

\* ------------------------------------------ the functions applied alone
NotRun == [ok |-> FALSE, val |-> <<>>, err |-> "not run"]

\* url = _clean_instagram_reel_url(url) and the INSTAGRAM_RE check, once.
NormalizeOnce ==
    /\ u_once = NotRun
    /\ u_once' = normalize(u_in)
    /\ UNCHANGED <<u_in, u_twice>>
    /\ UNCHANGED <<cvars, hvars, mvars, fvars, svars>>

\* The same applied to the URL the first application returned.
NormalizeTwice ==
    /\ u_once.ok
    /\ u_twice = NotRun
    /\ u_twice' = normalize(u_once.val)
    /\ UNCHANGED <<u_in, u_once>>
    /\ UNCHANGED <<cvars, hvars, mvars, fvars, svars>>

NotRendered == <<>>

\* fmt(t) of write_srt.
Format ==
    /\ rendered = NotRendered
    /\ rendered' = fmt(t)
    /\ UNCHANGED t
    /\ UNCHANGED <<uvars, cvars, hvars, mvars, svars>>

NotWritten == <<"(no file)">>

\* write_srt(segments, out_path) for each of two segment lists.
WriteA ==
    /\ fileA = NotWritten
    /\ fileA' = write_srt(segsA, 1)
    /\ UNCHANGED <<segsA, segsB, fileB>>
    /\ UNCHANGED <<uvars, cvars, hvars, mvars, fvars>>

WriteB ==
    /\ fileB = NotWritten
    /\ fileB' = write_srt(segsB, 1)
    /\ UNCHANGED <<segsA, segsB, fileA>>
    /\ UNCHANGED <<uvars, cvars, hvars, mvars, fvars>>

\* ---------------------------------------------------------- initial states
InitU == u_in = <<>> /\ u_once = NotRun /\ u_twice = NotRun

\* No cookie source configured.
InitC ==
    /\ COOKIES_FILE = ""
    /\ _COOKIES_TEXT_FILE = ""
    /\ LOCAL_COOKIES_BROWSER = ""
    /\ fs = {}

InitM ==
    /\ _MODEL = None
    /\ built = <<>>
    /\ tpc = <<>> /\ targs = <<>> /\ tlocal = <<>> /\ tret = <<>>

InitF == t = 0 /\ rendered = NotRendered

InitS == segsA = <<>> /\ segsB = <<>> /\ fileA = NotWritten /\ fileB = NotWritten

\* No request running.
InitH ==
    /\ handler = "cli" /\ urls = <<>> /\ cookies_path = ""
    /\ req_model = <<"small", "int8">>
    /\ i = 1 /\ pc = "done" /\ trace = <<>> /\ out_results = <<>>
    /\ response = NoResponse /\ stdout = <<>> /\ tmpdirs = 0
    /\ ydl_calls = <<>> /\ written = <<>>

\* A handler about to start on the list us with the cookie argument c: the
\* CLI refuses an empty list (line 265) and /submit takes one URL and passes
\* None for the cookie path (line 214).
Start(h, us, c) ==
    /\ h = "cli" => Len(us) >= 1
    /\ h = "submit" => Len(us) = 1 /\ c = ""
    /\ handler = h /\ urls = us /\ cookies_path = c
    /\ req_model = <<"small", "int8">>
    /\ i = 1 /\ pc = (IF h = "submit" THEN "normalize" ELSE "loop")
    /\ trace = <<>> /\ out_results = <<>>
    /\ response = NoResponse /\ stdout = <<>> /\ tmpdirs = 0
    /\ ydl_calls = <<>> /\ written = <<>>

Reel == <<"https", ":", "/", "/", "www.instagram.com", "/", "reel", "/", "ABC", "/">>
Reels == <<"http", ":", "/", "/", "instagram.com", "/", "reels", "/", "ABC", "?", "x=1">>
Post == <<"https", ":", "/", "/", "instagram.com", "/", "p", "/", "ABC", "/">>
NoId == <<"https", ":", "/", "/", "www.instagram.com", "/", "reel", "/">>

SomeUrls == {Reel, Reels, Post, NoId}

UrlLists == UNION {[1..n -> SomeUrls] : n \in 0..MaxUrls}

\* ------------------------------------------------------- specifications
\* One request or CLI run over a short list of URLs.
Init ==
    /\ \E h \in Handlers, us \in UrlLists : Start(h, us, "")
    /\ InitU /\ InitC /\ InitM /\ InitF /\ InitS

Next == HandlerNext

Spec == Init /\ [][Next]_vars

\* One request for one good URL under every cookie configuration.
InitCookies ==
    /\ \E h \in Handlers, c \in {"", ExplicitPath} : Start(h, <<Reel>>, c)
    /\ COOKIES_FILE \in {"", SecretPath}
    /\ _COOKIES_TEXT_FILE \in {"", TextPath}
    /\ LOCAL_COOKIES_BROWSER \in Browsers \cup {"", "safari"}
    /\ fs \in SUBSET {ExplicitPath, SecretPath, TextPath}
    /\ InitU /\ InitM /\ InitF /\ InitS

SpecCookies == InitCookies /\ [][Next]_vars

\* One /transcribe request for each input URL.
InitDownload ==
    /\ \E u \in Urls : Start("api", <<u>>, "")
    /\ InitU /\ InitC /\ InitM /\ InitF /\ InitS

SpecDownload == InitDownload /\ [][Next]_vars

\* normalize applied once and twice to each input URL.
InitNormalize ==
    /\ u_in \in Urls /\ u_once = NotRun /\ u_twice = NotRun
    /\ InitC /\ InitH /\ InitM /\ InitF /\ InitS

NextNormalize == NormalizeOnce \/ NormalizeTwice

SpecNormalize == InitNormalize /\ [][NextNormalize]_vars

\* Concurrent requests, each calling get_model with its own profile.
Profiles == {"small", "tiny"} \X {"int8", "float32"}

InitModel ==
    /\ _MODEL = None
    /\ built = <<>>
    /\ targs \in [Threads -> Profiles]
    /\ tpc = [th \in Threads |-> "check"]
    /\ tlocal = [th \in Threads |-> None]
    /\ tret = [th \in Threads |-> None]
    /\ InitU /\ InitC /\ InitH /\ InitF /\ InitS

SpecModel == InitModel /\ [][get_model]_vars

\* fmt applied to each time of a grid.
Wholes == (0..MaxWhole) \cup {59, 61, 63, 3599, 3600, 3661, 86399}
Fractions == {0, 4, 5, 6, 15, 25, 2500, 5000, 9994, 9995, 9996, 9999}
Times == {w * Ticks + f : w \in Wholes, f \in Fractions}

InitFmt ==
    /\ t \in Times /\ rendered = NotRendered
    /\ InitU /\ InitC /\ InitH /\ InitM /\ InitS

SpecFmt == InitFmt /\ [][Format]_vars

\* write_srt applied to two segment lists transcribe can return.
RawTimes == {<<0, 10000>>, <<10000, 20000>>, <<615049, 632500>>}
RawTexts ==
    {<<"Hi">>, <<"">>, <<"", "there", "">>, <<"a", "b">>,
     <<"Hi", "", "2", "00:00:01,000 --> 00:00:02,000", "there">>}
RawLists ==
    UNION {{[k \in 1..n |->
                [id |-> k, start |-> f[k][1][1], end |-> f[k][1][2], text |-> f[k][2]]] :
            f \in [1..n -> RawTimes \X RawTexts]} : n \in 0..MaxSegments}
SegmentLists == {result_segments(raw) : raw \in RawLists}

InitSrt ==
    /\ segsA \in SegmentLists /\ segsB \in SegmentLists
    /\ fileA = NotWritten /\ fileB = NotWritten
    /\ InitU /\ InitC /\ InitH /\ InitM /\ InitF

NextSrt == WriteA \/ WriteB

SpecSrt == InitSrt /\ [][NextSrt]_vars

\* ===================================================================
\* Properties
\* ===================================================================
Stages == <<"normalize", "fetch", "transcribe", "write_srt", "assemble">>

\* The stage events of URL number k, in the order they happened.
EventsOf(k) == SelectSeq(trace, LAMBDA e : e.k = k)

\* The exception text a failed stage event of URL k carries.
CauseOf(e) ==
    CASE e.stage = "normalize" -> normalize(urls[e.k]).err
      [] e.stage = "fetch" -> "FetchFailure"
      [] e.stage = "transcribe" -> "TranscriptionFailure"
      [] e.stage = "write_srt" -> "IOFailure"
      [] OTHER -> _clean_instagram_reel_url(urls[e.k]).err

\* URL numbers never go back in the trace.
InInputOrder == \A a, b \in DOMAIN trace : a < b => trace[a].k <= trace[b].k

\* C1: POST /transcribe works through the URLs in input order; the first
\* failing stage ends the request with HTTP 400 whose detail names that URL
\* and the cause, nothing is started for a later URL, and the results of the
\* earlier URLs are not returned.
C1_ApiStopsAtFirstFailure ==
    handler = "api" =>
        /\ InInputOrder
        /\ \A n \in DOMAIN trace :
              ~trace[n].ok =>
                  /\ n = Len(trace)
                  /\ pc = "done"
                  /\ response.status = 400
                  /\ response.url = urls[trace[n].k]
                  /\ response.cause = CauseOf(trace[n])
                  /\ response.results = <<>>
                  /\ \A c \in DOMAIN ydl_calls : ydl_calls[c].k <= trace[n].k
                  /\ \A w \in DOMAIN written : written[w] <= trace[n].k
        /\ response.status = 400 => trace # <<>> /\ ~trace[Len(trace)].ok
        /\ response.status = 200 =>
              /\ \A n \in DOMAIN trace : trace[n].ok
              /\ Len(response.results) = Len(urls)

\* C1 witness: three URLs, the first transcribed, the second failing, the
\* third never started.
C1_Witness ==
    /\ handler = "api" /\ Len(urls) = 3
    /\ response.status = 400 /\ response.url = urls[2]
    /\ Len(out_results) = 1
    /\ urls[3] # urls[2]

\* The number of times work on URL k was begun.
Attempts(k) ==
    Cardinality({n \in DOMAIN trace : trace[n].k = k /\ trace[n].stage = "normalize"})

ErrorLines == SelectSeq(stdout, LAMBDA l : l.tag = "[ERROR]")
Failures == SelectSeq(trace, LAMBDA e : ~e.ok)

\* C2: the CLI loop attempts every URL exactly once, in argument order,
\* whatever happened to the earlier ones; each failure is one line prefixed
\* [ERROR] for that URL; the loop can always go on and ends after the last
\* URL.
C2_CliAttemptsEveryUrl ==
    handler = "cli" =>
        /\ InInputOrder
        /\ \A k \in 1..Len(urls) :
              Attempts(k) = (IF k < i \/ (k = i /\ pc \notin {"loop", "normalize", "done"})
                             THEN 1 ELSE 0)
        /\ Len(ErrorLines) = Len(Failures)
        /\ \A n \in DOMAIN Failures :
              /\ ErrorLines[n].url = urls[Failures[n].k]
              /\ ErrorLines[n].msg = CauseOf(Failures[n])
        /\ pc = "done" => i = Len(urls) + 1
        /\ pc # "done" => ENABLED Next

\* C2 witness: the first of three URLs failed and the last was still
\* transcribed to the end.
C2_Witness ==
    /\ handler = "cli" /\ Len(urls) = 3 /\ pc = "done"
    /\ \E n \in DOMAIN trace : trace[n].k = 1 /\ ~trace[n].ok
    /\ \E n \in DOMAIN trace :
          trace[n].k = 3 /\ trace[n].stage = "assemble" /\ trace[n].ok

\* C10: for each URL the stages run in the order normalize, fetch,
\* transcribe, write_srt, assemble, each at most once, and a stage runs only
\* after every earlier stage of that URL succeeded; the downloader, the
\* subtitle file and the reported result exist only for stages that ran.
C10_StagesInOrder ==
    \A k \in 1..Len(urls) :
        \E ev \in {EventsOf(k)} :
            /\ Len(ev) <= Len(Stages)
            /\ \A n \in DOMAIN ev :
                  /\ ev[n].stage = Stages[n]
                  /\ n < Len(ev) => ev[n].ok
            /\ Cardinality({c \in DOMAIN ydl_calls : ydl_calls[c].k = k})
                  = (IF Len(ev) >= 2 THEN 1 ELSE 0)
            /\ Cardinality({w \in DOMAIN written : written[w] = k})
                  = (IF Len(ev) >= 4 /\ ev[4].ok THEN 1 ELSE 0)
            /\ (\/ \E r \in DOMAIN out_results : out_results[r].k = k
                \/ \E l \in DOMAIN stdout :
                      stdout[l].tag = "TRANSCRIPT" /\ stdout[l].k = k
                \/ handler = "submit" /\ response.status = 200)
               => Len(ev) = 5 /\ ev[5].ok

\* C10 witness: a transcription failed after a successful fetch, and the
\* handler finished.
C10_Witness ==
    /\ pc = "done"
    /\ \E n \in DOMAIN trace : trace[n].stage = "transcribe" /\ ~trace[n].ok
    /\ written = <<>>

\* The cookie sources in priority order: 1 the path given with the request,
\* 2 COOKIES_FILE, 3 the file written from COOKIES_TEXT, 4 the browser.
SourcePath(r) == <<cookies_path, COOKIES_FILE, _COOKIES_TEXT_FILE>>[r]

Available(r) ==
    IF r <= 3 THEN SourcePath(r) # "" /\ SourcePath(r) \in fs
    ELSE LOCAL_COOKIES_BROWSER \in Browsers

Uses(o, r) ==
    IF r <= 3 THEN SourcePath(r) # "" /\ o.cookiefile = SourcePath(r)
    ELSE o.cookiesfrombrowser # ""
         /\ o.cookiesfrombrowser = LOCAL_COOKIES_BROWSER

\* C5: every call of the downloader is handed exactly the first available
\* cookie source in the order request path, COOKIES_FILE, COOKIES_TEXT file,
\* browser, and none when none is available; never a cookie file and a
\* browser together.
C5_FirstAvailableCookieSource ==
    \A c \in DOMAIN ydl_calls :
        \E o \in {ydl_calls[c].opts} :
            /\ ~(o.cookiefile # "" /\ o.cookiesfrombrowser # "")
            /\ \A r \in 1..4 :
                  Uses(o, r) <=> (Available(r) /\ \A q \in 1..(r - 1) : ~Available(q))
            /\ o.cookiefile # "" => \E r \in 1..3 : Uses(o, r)

\* C5 witness: the request names a cookie file that does not exist, no
\* COOKIES_FILE is set, a browser is configured, and the COOKIES_TEXT file is
\* what the downloader gets.
C5_Witness ==
    /\ cookies_path = ExplicitPath /\ ExplicitPath \notin fs
    /\ COOKIES_FILE = ""
    /\ LOCAL_COOKIES_BROWSER = "firefox"
    /\ ydl_calls # <<>>
    /\ ydl_calls[1].opts = [cookiefile |-> TextPath, cookiesfrombrowser |-> ""]

PlatformHosts == {<<"instagram.com">>, <<"www.instagram.com">>}

\* The path of raw URL u has no "reel" and no "reels" segment.
NoReelSegment(u) ==
    \A p \in {PathParts(urlsplit(u))} :
        \A k \in DOMAIN p : p[k] \notin {<<"reel">>, <<"reels">>}

\* No "reel" or "reels" segment of u is followed by another segment.
NoIdSegment(u) ==
    \A p \in {PathParts(urlsplit(u))} :
        \A k \in DOMAIN p : p[k] \in {<<"reel">>, <<"reels">>} => k = Len(p)

\* Work on URL k ended in the normalize stage, before any directory or
\* download.
RejectedAsInvalid(k) ==
    /\ \E n \in DOMAIN trace : trace[n].k = k /\ trace[n].stage = "normalize"
    /\ \A n \in DOMAIN trace : trace[n].k = k => ~trace[n].ok
    /\ \A c \in DOMAIN ydl_calls : ydl_calls[c].k # k
    /\ tmpdirs = Len(ydl_calls)

Normalized(k) == \E n \in DOMAIN trace : trace[n].k = k /\ trace[n].stage = "normalize"

ForeignNetloc(u) ==
    \E nl \in {urlsplit(u).netloc} :
        nl # <<>> /\ ~(Len(nl) = 1 /\ <<FoldTok(nl[1])>> \in PlatformHosts)

C3_ModelMatchesProfile ==
    \A th \in DOMAIN tpc :
        tpc[th] = "done" =>
            /\ tret[th].model_size = targs[th][1]
            /\ tret[th].compute_type = targs[th][2]

\* C4: whatever the interleaving of the calling threads, the model is built
\* at most once and every finished call returned that one instance.
C4_ModelBuiltOnce ==
    /\ Len(built) <= 1
    /\ \A a, b \in DOMAIN tpc :
          tpc[a] = "done" /\ tpc[b] = "done" => tret[a] = tret[b]

\* A platform URL whose first reel/reels segment is followed by an
\* identifier segment.
ValidReelUrl(u) ==
    \E p \in {urlsplit(u)} :
        /\ p.scheme \in {<<"http">>, <<"https">>}
        /\ lower(p.netloc) \in PlatformHosts
        /\ \E parts \in {PathParts(p)} :
              \E k \in 1..(Len(parts) - 1) :
                  /\ parts[k] \in {<<"reel">>, <<"reels">>}
                  /\ \A j \in 1..(k - 1) : parts[j] \notin {<<"reel">>, <<"reels">>}
                  /\ Len(parts[k + 1]) = 1 /\ parts[k + 1][1] \in IdTok

\* C7: normalize succeeds on every valid reel URL, and normalizing its
\* result again returns the same result.
C7_NormalizeIdempotent ==
    ValidReelUrl(u_in) /\ u_once # NotRun =>
        /\ u_once.ok
        /\ u_twice # NotRun => u_twice = u_once

\* The number a sequence of digit characters writes.
RECURSIVE Number(_)
Number(ds) ==
    IF ds = <<>> THEN 0
    ELSE 10 * Number(SubSeq(ds, 1, Len(ds) - 1))
         + (CHOOSE d \in 0..9 : ToString(d) = ds[Len(ds)])

DigitChars == {ToString(d) : d \in 0..9}
AllDigits(ds) == \A k \in DOMAIN ds : ds[k] \in DigitChars

\* C8: fmt(t) reads HH:MM:SS,mmm with two-digit (or longer) hours, two-digit
\* minutes and seconds below 60 and exactly three millisecond digits, and the
\* time it writes is t rounded to the nearest millisecond.
C8_TimestampIsNearestMillisecond ==
    rendered # NotRendered =>
        \E hh \in {partition(rendered, {":"})} :
        \E mm \in {partition(hh.tail, {":"})} :
        \E ss \in {partition(mm.tail, {","})} :
            /\ hh.found /\ mm.found /\ ss.found
            /\ AllDigits(hh.head) /\ AllDigits(mm.head)
            /\ AllDigits(ss.head) /\ AllDigits(ss.tail)
            /\ Len(hh.head) >= 2 /\ Len(mm.head) = 2 /\ Len(ss.head) = 2
            /\ Len(ss.tail) = 3
            /\ Number(mm.head) < 60 /\ Number(ss.head) < 60
            /\ \E ms \in {((Number(hh.head) * 60 + Number(mm.head)) * 60
                            + Number(ss.head)) * 1000 + Number(ss.tail)} :
                  /\ 10 * ms - t <= 5
                  /\ t - 10 * ms <= 5

\* C9: re-reading the written file recovers the segment list it was written
\* from (number of segments, order, start, end, text), whatever the texts:
\* stated without fixing a reader, two segment lists that transcribe can
\* return and that differ are never written as the same file.
C9_SrtRoundTrip ==
    fileA # NotWritten /\ fileB # NotWritten /\ fileA = fileB => segsA = segsB

====
